---------------------------- MODULE Spec2Model ----------------------------
(***************************************************************************)
(* A model of Ore_Muisc/Process.py: the X-ray diffraction sonifier.        *)
(*                                                                         *)
(* Numbers.  The program computes in floating point; the model computes    *)
(* exactly.  Raw angles and raw intensities are integers.  A smoothed      *)
(* intensity is held as an integer count of 1/858 (858 is the common       *)
(* denominator of the Savitzky-Golay weights), a score as an integer count *)
(* of 1/8580: every use the program makes of them (comparisons,            *)
(* the ratio score/max, the interpolation between min and max intensity)   *)
(* is independent of the unit.  Times and durations are exact rationals    *)
(* [num, den] in lowest terms; the IEEE values that numpy's float division *)
(* by zero produces are the records with den = 0: NaN, PosInf, NegInf.     *)
(***************************************************************************)
EXTENDS Integers, Sequences, FiniteSets, TLC

VARIABLES
    cfg,        \* the Config object handed to XRaySonifier
    rng,        \* the state of numpy's process-wide random generator
    pc,         \* where the running program is
    listing,    \* os.listdir(cfg.input_dir): the files, in listing order
    pos,        \* process_files: index of the next entry of the listing
    log,        \* one record per call of process_file, in call order
    features,   \* the feature list handed to _generate_events
    events,     \* what _generate_events returned
    runs        \* the MIDI content of each create_midi call on `events`

vars == <<cfg, rng, pc, listing, pos, log, features, events, runs>>

---------------------------------------------------------------------------
(* Bounds of the model *)

MaxFeatures == 3        \* longest feature list handed to _generate_events
MaxIntensity == 1       \* largest feature intensity drawn
MaxSeed == 1            \* initial generator states drawn: 0 .. MaxSeed
MaxRuns == 2            \* create_midi calls on the same events
MaxFiles == 2           \* longest directory listing of a batch
MaxSamples == 13        \* longest curve in a file
MaxHeight == 2          \* largest raw intensity of a spike
RngMod == 16            \* size of the modelled generator's state space
AngleStep == 5          \* angle between two samples of a curve

(* Program constants *)

max_duration == 90
base_bpm == 80
note_duration == 2
window_length == 11
ReferenceAngle == 90
TopK == 50
MidiMin == 0
MidiMax == 127

Instruments == <<87, 103, 24, 101>>   \* main, ambient, bass, effect

---------------------------------------------------------------------------
(* Exact arithmetic *)

Abs(x) == IF x < 0 THEN -x ELSE x

RECURSIVE GCD(_, _)
GCD(a, b) == IF b = 0 THEN a ELSE GCD(b, a % b)

\* the rational n/d (d # 0) in lowest terms with a positive denominator
Rat(n, d) ==
    LET g == GCD(Abs(n), Abs(d))
        s == IF d < 0 THEN -1 ELSE 1
    IN  [num |-> (s * n) \div g, den |-> (s * d) \div g]

NaN == [num |-> 0, den |-> 0]
PosInf == [num |-> 1, den |-> 0]
NegInf == [num |-> -1, den |-> 0]

IsRat(x) == x.den # 0

RatLeq(x, y) == x.num * y.den <= y.num * x.den
RatAdd(x, y) == Rat(x.num * y.den + y.num * x.den, x.den * y.den)
RatSub(x, y) == Rat(x.num * y.den - y.num * x.den, x.den * y.den)
RatMul(x, y) == Rat(x.num * y.num, x.den * y.den)

\* int(a/b) for b > 0: Python's int() truncates toward zero
TruncDiv(a, b) == IF a >= 0 THEN a \div b ELSE -((-a) \div b)

\* floor(sqrt(n)) for n >= 0
Isqrt(n) == CHOOSE r \in 0..n : r * r <= n /\ (r + 1) * (r + 1) > n

SetMin(S) == CHOOSE m \in S : \A y \in S : m <= y
SetMax(S) == CHOOSE m \in S : \A y \in S : m >= y

---------------------------------------------------------------------------
(* numpy helpers used by _generate_events and _add_ambient_effects *)

\* a clip that forgets the upper limit
ClipLowOnly(x, lo, hi) == IF x < lo THEN lo ELSE x

\* np.clip on integers
Clip(x, lo, hi) == IF x < lo THEN lo ELSE IF x > hi THEN hi ELSE x

\* np.clip on a float: NaN passes through, the infinities are clipped
ClipFloat(x, lo, hi) ==
    IF x = NaN THEN NaN
    ELSE IF x = NegInf THEN lo
    ELSE IF x = PosInf THEN hi
    ELSE IF RatLeq(x, lo) THEN lo
    ELSE IF RatLeq(hi, x) THEN hi
    ELSE x

\* numpy float64 division a/b of two finite values: no exception on b = 0
FloatDiv(a, b) ==
    IF b = 0 THEN (IF a = 0 THEN NaN ELSE IF a > 0 THEN PosInf ELSE NegInf)
    ELSE Rat(a, b)

\* k * (c + x) for rationals k > 0 and c and a float x
ScaleShift(k, c, x) == IF IsRat(x) THEN RatMul(k, RatAdd(c, x)) ELSE x

\* np.linspace with endpoint=False: the step is (stop - start) / num
LinspaceNoEndpoint(start, stop, num, i) ==
    RatAdd(start, RatMul(Rat(i, num), RatSub(stop, start)))

\* np.linspace(start, stop, num)[i], i = 0 .. num-1, endpoint included:
\* step = (stop - start) / (num - 1), y = start + i * step, and the last
\* sample is set to stop; for num = 1 the only sample is start
Linspace(start, stop, num, i) ==
    IF num > 1 /\ i = num - 1 THEN stop
    ELSE IF num = 1 THEN start
    ELSE RatAdd(start, RatMul(Rat(i, num - 1), RatSub(stop, start)))

\* int(np.interp(x, [xmin, xmax], (lo, hi))) for xmin <= x <= xmax.  numpy
\* looks up the interval j with xp[j] <= x < xp[j+1]; for x = xp[-1], and so
\* whenever xmin = xmax, that is the last point and the result is fp[-1]
InterpInt(x, xmin, xmax, lo, hi) ==
    IF x = xmax THEN hi
    ELSE TruncDiv(lo * (xmax - xmin) + (x - xmin) * (hi - lo), xmax - xmin)

---------------------------------------------------------------------------
(* Config *)

\* Config.pitch_curve is lambda x: int(30 + 5*(x**0.5)); "steep" and
\* "falling" are other curves a caller may configure
PitchCurve(curve, x) ==
    CASE curve = "default" -> 30 + Isqrt(25 * x)
      [] curve = "steep"   -> 30 + 5 * x
      [] curve = "falling" -> 30 - 5 * x

DefaultConfig == [dynamic_range |-> <<60, 100>>, pitch_curve |-> "default"]

Configs == {DefaultConfig,
            [dynamic_range |-> <<-20, 200>>, pitch_curve |-> "steep"],
            [dynamic_range |-> <<60, 100>>, pitch_curve |-> "falling"]}

---------------------------------------------------------------------------
(* XRaySonifier._generate_events *)

Scores(fs) == {fs[i].score : i \in DOMAIN fs}
Intensities(fs) == {fs[i].intensity : i \in DOMAIN fs}

EventOf(fs, c, i) ==
    LET f == fs[i]
        raw_pitch == PitchCurve(c.pitch_curve, f.deviation)
        raw_vol == InterpInt(f.intensity, SetMin(Intensities(fs)),
                             SetMax(Intensities(fs)),
                             c.dynamic_range[1], c.dynamic_range[2])
    IN  [time |-> Linspace(Rat(1, 10), Rat(max_duration, 1), Len(fs), i - 1),
         duration |-> ClipFloat(
             ScaleShift(Rat(note_duration, 1), Rat(1, 2),
                        FloatDiv(f.score, SetMax(Scores(fs)))),
             Rat(1, 2), Rat(max_duration, 1)),
         pitch |-> Clip(raw_pitch, MidiMin, MidiMax),
         velocity |-> Clip(raw_vol, MidiMin, MidiMax)]

generate_events(fs, c) == [i \in 1..Len(fs) |-> EventOf(fs, c, i)]

---------------------------------------------------------------------------
(* midiutil.MIDIFile as the program uses it: per track, the program       *)
(* changes, tempo events, controller events and notes in call order       *)

Tracks == 0..3

MIDIFile == [programs |-> [t \in Tracks |-> <<>>],
             tempos |-> [t \in Tracks |-> <<>>],
             controllers |-> [t \in Tracks |-> <<>>],
             notes |-> [t \in Tracks |-> <<>>]]

addControllerEvent(midi, track, channel, time, controller_number, parameter) ==
    [midi EXCEPT !.controllers[track] =
        Append(@, [channel |-> channel, time |-> time,
                   controller_number |-> controller_number,
                   parameter |-> parameter])]

Note(channel, pitch, time, duration, volume) ==
    [channel |-> channel, pitch |-> pitch, time |-> time,
     duration |-> duration, volume |-> volume]

\* the addNote calls of one loop: `notes` in call order, all on `track`
addNotes(midi, track, notes) ==
    [midi EXCEPT !.notes[track] = @ \o notes]

---------------------------------------------------------------------------
(* np.random: one generator for the whole process, never seeded by the    *)
(* program.  Modelled as a generator with RngMod states; a draw advances  *)
(* the state and yields u = state / RngMod in [0, 1).                     *)

\* the state after k draws: every draw steps the state by 7
RngAt(s, k) == (s + 7 * k) % RngMod

\* np.random.uniform(low, high) = low + (high - low) * u
Uniform(low, high, s) == RatAdd(low, RatMul(RatSub(high, low), Rat(s, RngMod)))

\* np.random.randint(low, high): an integer in low .. high-1
Randint(low, high, s) == low + ((high - low) * s) \div RngMod

\* np.random.choice(seq)
Choice(seq, s) == seq[1 + Randint(0, Len(seq), s)]

---------------------------------------------------------------------------
(* XRaySonifier._add_ambient_effects *)

GracePitches == <<84, 86, 89>>

\* the k-th pass of `for _ in range(int(duration/3))`: three draws, for the
\* onset, the pitch and the volume, in this order
GraceNote(duration, s, k) ==
    Note(0, Choice(GracePitches, RngAt(s, 3 * k - 1)),
         Uniform(Rat(1, 2), Rat(duration - 2, 1), RngAt(s, 3 * k - 2)),
         Rat(15, 100),
         Clip(Randint(30, 50, RngAt(s, 3 * k)), MidiMin, MidiMax))

add_grace_notes(midi, duration, s) ==
    addNotes(midi, 3, [k \in 1..(duration \div 3) |-> GraceNote(duration, s, k)])

\* len(np.arange(0.2, duration, 4)) = ceil((duration - 0.2) / 4)
PulseCount(duration) == (5 * duration - 1 + 19) \div 20

PulseNote(k) == Note(0, 36, Rat(1 + 20 * (k - 1), 5), Rat(3, 1),
                     Clip(35, MidiMin, MidiMax))

\* the pulse loop writing to the ambient track, track 1
add_pulses_ambient_track(midi, duration) ==
    addNotes(midi, 1, [k \in 1..PulseCount(duration) |-> PulseNote(k)])

\* the loop `for t in np.arange(0.2, duration, 4)`
add_pulses(midi, duration) ==
    addNotes(midi, 2, [k \in 1..PulseCount(duration) |-> PulseNote(k)])

add_ambient_effects(midi, duration, s) ==
    [midi |-> add_pulses(
                  add_grace_notes(addControllerEvent(midi, 2, 0, 0, 91, 60),
                                  duration, s),
                  duration),
     rng |-> RngAt(s, 3 * (duration \div 3))]

---------------------------------------------------------------------------
(* XRaySonifier.create_midi, up to the write of the file *)

\* the loop over cfg.instruments: track i gets its program and the tempo
add_instruments(midi) ==
    [midi EXCEPT
        !.programs = [t \in Tracks |->
            Append(midi.programs[t],
                   [channel |-> 0, time |-> 0, program |-> Instruments[t + 1]])],
        !.tempos = [t \in Tracks |->
            Append(midi.tempos[t], [time |-> 0, tempo |-> base_bpm])]]

\* the loop `for evt in events`
add_melody(midi, evts) ==
    addNotes(midi, 0, [i \in DOMAIN evts |->
                          Note(0, evts[i].pitch, evts[i].time,
                               evts[i].duration, evts[i].velocity)])

create_midi(evts, duration, s) ==
    add_ambient_effects(add_melody(add_instruments(MIDIFile), evts), duration, s)

---------------------------------------------------------------------------
(* scipy.signal.savgol_filter(x, window_length=11, polyorder=3), default  *)
(* mode "interp".  SavgolWeights[r] are the weights, times 858, of         *)
(* the value at position r of the least-squares cubic through 11 samples.  *)
(* Row 6 (the centre) is the filter applied inside the curve; the first    *)
(* and last 5 samples are read off the cubic through the first and last    *)
(* 11 samples.                                                              *)

SavgolWeights ==
    << <<678, 288, 48, -72, -102, -72, -12, 48, 78, 48, -72>>,
       <<288, 246, 192, 132, 72, 18, -24, -48, -48, -18, 48>>,
       <<48, 192, 246, 232, 172, 88, 2, -64, -88, -48, 78>>,
       <<-72, 132, 232, 251, 212, 138, 52, -23, -64, -48, 48>>,
       <<-102, 72, 172, 212, 206, 168, 112, 52, 2, -24, -12>>,
       <<-72, 18, 88, 138, 168, 178, 168, 138, 88, 18, -72>>,
       <<-12, -24, 2, 52, 112, 168, 206, 212, 172, 72, -102>>,
       <<48, -48, -64, -23, 52, 138, 212, 251, 232, 132, -72>>,
       <<78, -48, -88, -64, 2, 88, 172, 232, 246, 192, 48>>,
       <<48, -18, -48, -48, -24, 18, 72, 132, 192, 246, 288>>,
       <<-72, 48, 78, 48, -12, -72, -102, -72, 48, 288, 678>> >>

RECURSIVE Dot(_, _, _, _)
\* sum over k = 1 .. j of w[k] * x[off + k]
Dot(w, x, off, j) == IF j = 0 THEN 0 ELSE w[j] * x[off + j] + Dot(w, x, off, j - 1)

\* the smoothed curve in units of 1/858; needs Len(x) >= window_length
savgol_filter(x) ==
    LET n == Len(x)
        half == window_length \div 2
    IN  [i \in 1..n |->
            IF i <= half THEN Dot(SavgolWeights[i], x, 0, window_length)
            ELSE IF i > n - half
                THEN Dot(SavgolWeights[i - (n - window_length)], x,
                         n - window_length, window_length)
            ELSE Dot(SavgolWeights[half + 1], x, i - half - 1, window_length)]

RECURSIVE SeqSum(_, _)
SeqSum(x, j) == IF j = 0 THEN 0 ELSE x[j] + SeqSum(x, j - 1)

Neg(x) == [i \in DOMAIN x |-> -x[i]]
Squares(x) == [i \in DOMAIN x |-> x[i] * x[i]]

\* n^2 times the variance of x: np.std(x) = sqrt(VarianceN2(x)) / n
VarianceN2(x) == Len(x) * SeqSum(Squares(x), Len(x)) - SeqSum(x, Len(x)) * SeqSum(x, Len(x))

\* scipy's _local_maxima_1d: the midpoint of every plateau that is entered by
\* a strict rise and left by a strict fall; never the first or last sample
LocalMaxima(x) ==
    {(l + r) \div 2 : <<l, r>> \in
        {lr \in (2..Len(x) - 1) \X (2..Len(x) - 1) :
            /\ lr[1] <= lr[2]
            /\ \A k \in lr[1]..lr[2] : x[k] = x[lr[1]]
            /\ x[lr[1] - 1] < x[lr[1]]
            /\ x[lr[2] + 1] < x[lr[1]]}}

\* scipy's peak_prominences with no window: the lowest value on each side of
\* the peak before the curve rises above the peak; the higher of the two is
\* the base
Prominence(x, p) ==
    LET left == SetMin({l \in 1..p : \A k \in l..p : x[k] <= x[p]})
        right == CHOOSE r \in p..Len(x) :
                     /\ \A k \in p..r : x[k] <= x[p]
                     /\ \A r2 \in p..Len(x) :
                            (\A k \in p..r2 : x[k] <= x[p]) => r2 <= r
        left_min == SetMin({x[k] : k \in left..p})
        right_min == SetMin({x[k] : k \in p..right})
    IN  x[p] - (IF left_min > right_min THEN left_min ELSE right_min)

\* prominence >= 0.5 * np.std(smoothed), i.e. (2 * n * prominence)^2 >= n^2 var;
\* beyond 46340 the square exceeds 2^31, more than n^2 var is here
ProminentEnough(prom, n, varN2) ==
    LET a == 2 * n * prom
    IN  a > 46340 \/ a * a >= varN2

\* find_peaks(x, prominence=np.std(smoothed)*0.5)
find_peaks(x, varN2) ==
    {p \in LocalMaxima(x) : ProminentEnough(Prominence(x, p), Len(x), varN2)}

---------------------------------------------------------------------------
(* XRaySonifier._extract_features *)

\* one feature dict: dev = abs(angle - 90), score = intensity * (1 + dev/10),
\* the score held in tenths of the intensity's unit
Feature(angle, intensity) ==
    LET dev == Abs(angle - ReferenceAngle)
    IN  [angle |-> angle, intensity |-> intensity, deviation |-> dev,
         score |-> intensity * (10 + dev)]

\* the merged index set set(peaks.tolist() + valleys.tolist())
ExtremaOf(smoothed) ==
    find_peaks(smoothed, VarianceN2(smoothed))
        \cup find_peaks(Neg(smoothed), VarianceN2(smoothed))

\* sorted(fs, key=lambda x: -x["score"]): Python's sort is stable
SortedByScore(fs) ==
    LET rank(k) == 1 + Cardinality({j \in DOMAIN fs : fs[j].score > fs[k].score})
                     + Cardinality({j \in 1..k - 1 : fs[j].score = fs[k].score})
    IN  [r \in DOMAIN fs |-> fs[CHOOSE k \in DOMAIN fs : rank(k) = r]]

\* `order` is the order in which the for loop meets the members of the index
\* set: Python does not define the iteration order of a set
extract_features(angles, intensities, order) ==
    LET smoothed == savgol_filter(intensities)
    IN  SortedByScore([k \in DOMAIN order |->
                          Feature(angles[order[k]], smoothed[order[k]])])

Perms(S) == {f \in [1..Cardinality(S) -> S] : \A i, j \in DOMAIN f : f[i] = f[j] => i = j}

---------------------------------------------------------------------------
(* Input files.  A file is what np.loadtxt finds in it: whether the text  *)
(* parses as numbers, how many columns, and the first two columns.        *)
(* `nonfinite` says that the intensity column holds a "nan" or "inf",     *)
(* which np.loadtxt parses as a float like any other.                     *)

File(txt, parses, cols, nonfinite, angles, intensities) ==
    [txt |-> txt, parses |-> parses, cols |-> cols, nonfinite |-> nonfinite,
     angles |-> angles, intensities |-> intensities]

\* _load_data: None unless loadtxt succeeds with a 2-D array of two columns
\* (a file of one row, or of none, loads as a 1-D array)
load_data(file) ==
    file.parses /\ Len(file.intensities) >= 2 /\ file.cols = 2

\* the indices that survive find_peaks.  With a NaN in the curve np.std is
\* NaN and no prominence compares >= NaN: nothing survives
ExtremaOfFile(file) ==
    IF ~load_data(file) \/ Len(file.intensities) < window_length \/ file.nonfinite
    THEN {}
    ELSE ExtremaOf(savgol_filter(file.intensities))

---------------------------------------------------------------------------
(* XRaySonifier.process_file: everything one call does.  `order` is the   *)
(* iteration order of the index set, `io` what the file system does to    *)
(* the two writes, s the generator state on entry.  ret is "True",        *)
(* "False", or "raise" when an exception leaves the call.                 *)

IOOutcomes == {"ok", "midi_fails", "report_fails"}

Outcome(ret, loaded, extracted, fs, evts, midi, midi_written, report_written, s) ==
    [ret |-> ret, loaded |-> loaded, extracted |-> extracted, features |-> fs,
     events |-> evts, midi |-> midi, midi_written |-> midi_written,
     report_written |-> report_written, rng |-> s]

process_file(file, order, io, c, s) ==
    IF ~load_data(file)
    THEN Outcome("False", FALSE, FALSE, <<>>, <<>>, MIDIFile, FALSE, FALSE, s)
    ELSE IF Len(file.intensities) < window_length
    THEN \* savgol_filter raises ValueError: window_length exceeds the size of x
         Outcome("raise", TRUE, TRUE, <<>>, <<>>, MIDIFile, FALSE, FALSE, s)
    ELSE LET fs == IF file.nonfinite THEN <<>>
                   ELSE extract_features(file.angles, file.intensities, order)
         IN  IF fs = <<>>
             THEN Outcome("False", TRUE, TRUE, fs, <<>>, MIDIFile, FALSE, FALSE, s)
             ELSE LET top == SubSeq(fs, 1, IF Len(fs) < TopK THEN Len(fs) ELSE TopK)
                      evts == generate_events(top, c)
                      m == create_midi(evts, max_duration, s)
                  IN  IF io = "midi_fails"
                      THEN Outcome("raise", TRUE, TRUE, fs, evts, MIDIFile,
                                   FALSE, FALSE, m.rng)
                      ELSE IF io = "report_fails"
                      THEN Outcome("raise", TRUE, TRUE, fs, evts, m.midi,
                                   TRUE, FALSE, m.rng)
                      ELSE Outcome("True", TRUE, TRUE, fs, evts, m.midi,
                                   TRUE, TRUE, m.rng)

---------------------------------------------------------------------------
(* XRaySonifier.process_files and the __main__ block around it *)

\* one iteration of the for loop over os.listdir: a file that is not .txt
SkipFile ==
    /\ pc = "loop"
    /\ pos <= Len(listing)
    /\ ~listing[pos].txt
    /\ pos' = pos + 1
    /\ UNCHANGED <<cfg, rng, pc, listing, log, features, events, runs>>

\* one iteration of the for loop: a .txt file.  An exception that leaves
\* process_file leaves process_files too and is caught by __main__
ProcessFile ==
    /\ pc = "loop"
    /\ pos <= Len(listing)
    /\ listing[pos].txt
    /\ \E order \in Perms(ExtremaOfFile(listing[pos])), io \in IOOutcomes :
          \E r \in {process_file(listing[pos], order, io, cfg, rng)} :
              /\ log' = Append(log, [file |-> pos, ret |-> r.ret,
                                     loaded |-> r.loaded, extracted |-> r.extracted,
                                     features |-> r.features, events |-> r.events,
                                     midi |-> r.midi, midi_written |-> r.midi_written,
                                     report_written |-> r.report_written])
              /\ rng' = r.rng
              /\ pc' = IF r.ret = "raise" THEN "aborted" ELSE "loop"
              /\ pos' = IF r.ret = "raise" THEN pos ELSE pos + 1
    /\ UNCHANGED <<cfg, listing, features, events, runs>>

\* the listing is exhausted: process_files returns
Finish ==
    /\ pc = "loop"
    /\ pos > Len(listing)
    /\ pc' = "done"
    /\ UNCHANGED <<cfg, rng, listing, pos, log, features, events, runs>>

Next == SkipFile \/ ProcessFile \/ Finish

---------------------------------------------------------------------------
(* The files of the model *)

\* n samples, evenly spaced angles with the middle sample at ReferenceAngle
Angles(n) == [i \in 1..n |-> ReferenceAngle + AngleStep * (i - 1 - n \div 2)]

\* a curve that is zero except for spikes of heights hp, hq at p, q
Curve(n, p, hp, q, hq) ==
    [i \in 1..n |-> IF i = p THEN hp ELSE IF i = q THEN hq ELSE 0]

Curves(n) == {Curve(n, p, hp, q, hq) :
                 p \in 1..n, q \in 1..n, hp \in 0..MaxHeight, hq \in 0..MaxHeight}
             \cup {[i \in 1..n |-> 0]}

CurveFile(x) == File(TRUE, TRUE, 2, FALSE, Angles(Len(x)), x)

\* a curve with a spike in the middle
Bump(n) == Curve(n, n \div 2 + 1, 1, 0, 0)

\* too short to load, one short of the smoothing window, and up
Lengths == {0, 1} \cup (window_length - 1)..MaxSamples

CurveFiles == {CurveFile(x) : x \in UNION {Curves(n) : n \in Lengths}}

OtherFiles ==
    {File(FALSE, TRUE, 2, FALSE, Angles(window_length), Bump(window_length)),
     File(TRUE, FALSE, 0, FALSE, <<>>, <<>>),
     File(TRUE, TRUE, 3, FALSE, Angles(window_length), Bump(window_length)),
     File(TRUE, TRUE, 2, TRUE, Angles(window_length), Bump(window_length))}

\* a batch: a directory of a few files of every kind
BatchFiles ==
    OtherFiles \cup {CurveFile(Bump(window_length)),
                     CurveFile(Bump(window_length - 1)),
                     CurveFile([i \in 1..window_length |-> 0])}

InitProgram(files, lengths) ==
    /\ cfg = DefaultConfig
    /\ rng \in 0..MaxSeed
    /\ pc = "loop"
    /\ listing \in UNION {[1..n -> files] : n \in lengths}
    /\ pos = 1
    /\ log = <<>>
    /\ features = <<>>
    /\ events = <<>>
    /\ runs = <<>>

Init == InitProgram(BatchFiles, 0..MaxFiles)

Spec == Init /\ [][Next]_vars

\* a directory of one file, of any content
InitFile == InitProgram(CurveFiles \cup OtherFiles, {1})

SpecFile == InitFile /\ [][Next]_vars

---------------------------------------------------------------------------
(* Calls of _generate_events and create_midi on given feature lists *)

Deviations == {0, 25}

FeatureInputs == {Feature(ReferenceAngle + d, x) :
                      d \in Deviations, x \in -1..MaxIntensity}

\* process_file hands over a list sorted by score, highest first
FeatureLists ==
    {fs \in UNION {[1..n -> FeatureInputs] : n \in 1..MaxFeatures} :
        \A i \in 1..Len(fs) - 1 : fs[i].score >= fs[i + 1].score}

InitEvents ==
    /\ cfg \in Configs
    /\ rng \in 0..MaxSeed
    /\ pc = "features"
    /\ features \in FeatureLists
    /\ events = <<>>
    /\ runs = <<>>
    /\ listing = <<>>
    /\ pos = 1
    /\ log = <<>>

CallGenerateEvents ==
    /\ pc = "features"
    /\ events' = generate_events(features, cfg)
    /\ pc' = "events"
    /\ UNCHANGED <<cfg, rng, listing, pos, log, features, runs>>

CallCreateMidi ==
    /\ pc = "events"
    /\ Len(runs) < MaxRuns
    /\ \E r \in {create_midi(events, max_duration, rng)} :
           /\ runs' = Append(runs, r.midi)
           /\ rng' = r.rng
    /\ UNCHANGED <<cfg, pc, listing, pos, log, features, events>>

NextEvents == CallGenerateEvents \/ CallCreateMidi

SpecEvents == InitEvents /\ [][NextEvents]_vars

---------------------------------------------------------------------------
(* Properties *)

MidiRange == MidiMin..MidiMax

RawPitch(f) == PitchCurve(cfg.pitch_curve, f.deviation)

\* C1: every event _generate_events emits has a pitch and a velocity in
\* 0..127, whatever the pitch curve and the dynamic range yield, and so has
\* every grace note and pulse note _add_ambient_effects adds
C1_PitchVelocityInRange ==
    /\ \A i \in DOMAIN events :
          events[i].pitch \in MidiRange /\ events[i].velocity \in MidiRange
    /\ \A r \in DOMAIN runs : \A t \in {2, 3} : \A k \in DOMAIN runs[r].notes[t] :
          /\ runs[r].notes[t][k].pitch \in MidiRange
          /\ runs[r].notes[t][k].volume \in MidiRange

\* C1 witness: events were emitted for a list with a raw pitch above 127 and
\* a velocity clamped at each end, and the ambient notes of a create_midi
\* call are there
C1_Witness ==
    /\ pc = "events"
    /\ \E i \in DOMAIN features : RawPitch(features[i]) > MidiMax
    /\ \E i, j \in DOMAIN events :
          /\ features[i].intensity < features[j].intensity
          /\ cfg.dynamic_range[1] < MidiMin /\ events[i].velocity = MidiMin
          /\ cfg.dynamic_range[2] > MidiMax /\ events[j].velocity = MidiMax
    /\ Len(runs) >= 1
    /\ Len(runs[1].notes[2]) > 0 /\ Len(runs[1].notes[3]) > 0

InRange(x, lo, hi) == IsRat(x) /\ RatLeq(lo, x) /\ RatLeq(x, hi)

\* C2: every emitted event's duration lies in [0.5, max_duration], also for
\* a list whose largest score is 0 and for lists with negative scores
C2_DurationInRange ==
    \A i \in DOMAIN events :
        InRange(events[i].duration, Rat(1, 2), Rat(max_duration, 1))

\* C3: the onsets never decrease in emission order; for N > 1 features the
\* first is 0.1, the last max_duration and the spacing is equal; for N = 1
\* the onset is 0.1
C3_Onsets ==
    pc = "events" =>
        /\ Len(events) = Len(features)
        /\ \A i \in 1..Len(events) - 1 : RatLeq(events[i].time, events[i + 1].time)
        /\ events[1].time = Rat(1, 10)
        /\ Len(events) > 1 => events[Len(events)].time = Rat(max_duration, 1)
        /\ \A i \in 1..Len(events) - 2 :
              RatSub(events[i + 1].time, events[i].time)
                  = RatSub(events[i + 2].time, events[i + 1].time)

\* C3 witness: the events of a list of three or more features
C3_Witness == pc = "events" /\ Len(events) >= 3

\* C5: two create_midi calls on the same events, duration and configuration
\* produce the same MIDI content
C5_SameMidi == \A a, b \in DOMAIN runs : runs[a] = runs[b]

Midpoint(range) == (range[1] + range[2]) \div 2

\* C8: when all features have the same intensity every velocity is the
\* midpoint of the dynamic range (80 for (60, 100))
C8_MidpointVelocity ==
    (pc = "events" /\ \A i, j \in DOMAIN features :
                          features[i].intensity = features[j].intensity)
        => \A i \in DOMAIN events :
              events[i].velocity = Clip(Midpoint(cfg.dynamic_range), MidiMin, MidiMax)

NoteOfEvent(e) == Note(0, e.pitch, e.time, e.duration, e.velocity)

\* C10: after create_midi track 0 holds one note per event, in order, and
\* nothing else; track 1 holds no note; the pulse notes (pitch 36) are the
\* notes of track 2 and the grace notes (pitch 84, 86 or 89) the notes of
\* track 3; every track has its program change and a tempo event at time 0
C10_TrackSeparation ==
    \A r \in DOMAIN runs :
        LET m == runs[r]
        IN  /\ m.notes[0] = [i \in DOMAIN events |-> NoteOfEvent(events[i])]
            /\ m.notes[1] = <<>>
            /\ Len(m.notes[2]) = PulseCount(max_duration)
            /\ \A k \in DOMAIN m.notes[2] : m.notes[2][k].pitch = 36
            /\ Len(m.notes[3]) = max_duration \div 3
            /\ \A k \in DOMAIN m.notes[3] : m.notes[3][k].pitch \in {84, 86, 89}
            /\ \A t \in Tracks :
                  /\ m.programs[t] = <<[channel |-> 0, time |-> 0,
                                        program |-> Instruments[t + 1]]>>
                  /\ m.tempos[t] = <<[time |-> 0, tempo |-> base_bpm]>>

\* C10 witness: a create_midi call on two or more events
C10_Witness ==
    /\ Len(runs) >= 1
    /\ Len(events) >= 2
    /\ Len(runs[1].notes[2]) > 0
    /\ Len(runs[1].notes[3]) > 0

FileOf(e) == listing[e.file]

\* C4: the list _extract_features returns is ordered by score, highest
\* first, and features of equal score by ascending sample index (the angles
\* of a file ascend with the index)
C4_TotalOrder ==
    \A k \in DOMAIN log : \A i \in 1..Len(log[k].features) - 1 :
        LET f == log[k].features[i]
            g == log[k].features[i + 1]
        IN  f.score > g.score \/ (f.score = g.score /\ f.angle < g.angle)

\* C6: a curve of fewer than 11 samples, or with fewer than 2 surviving
\* extrema, ends in failure: no events and no MIDI file for it
C6_InsufficientData ==
    \A k \in DOMAIN log :
        (/\ log[k].loaded
         /\ \/ Len(FileOf(log[k]).intensities) < window_length
            \/ Cardinality(ExtremaOfFile(FileOf(log[k]))) < 2)
            => /\ log[k].ret # "True"
               /\ log[k].events = <<>>
               /\ ~log[k].midi_written

Ended == pc \in {"done", "aborted"}

\* C7: a failure on one file is terminal for that file only: when the batch
\* has ended every .txt file of the listing was processed exactly once
C7_EveryFileProcessed ==
    Ended => \A i \in DOMAIN listing :
                 listing[i].txt
                     => Cardinality({k \in DOMAIN log : log[k].file = i}) = 1

\* C9: a table with a non-finite value is rejected by the loader:
\* process_file returns False and _extract_features is not called on it
C9_NonFiniteRejected ==
    \A k \in DOMAIN log :
        FileOf(log[k]).nonfinite
            => ~log[k].loaded /\ log[k].ret = "False" /\ ~log[k].extracted

============================================================================
